---- MODULE Spec2Model ----
(***************************************************************************)
(* The IoT ingestion service (iot-pipeline/services/ingestion/main.py) as  *)
(* a state machine: the run() coroutine (initialize, serve, shutdown), the *)
(* MQTT callbacks, the per-message coroutines process_sensor_data,         *)
(* process_device_status and process_device_config, and the statistics     *)
(* reporter.  Coroutines are cut at their await expressions and at the     *)
(* calls that can raise.  The lifespan of the AI engine (ai-engine/main.py)*)
(* is a second program with its own variables and specification.           *)
(***************************************************************************)
EXTENDS Integers, Sequences, FiniteSets, TLC

\* Bound of the model: the inbound messages and coroutine calls of a run.
MaxInputs == 2
\* Bound of the lifespan model: the requests the AI engine serves in a run.
MaxRequests == 2

\* A string-valued key that a JSON payload does not carry.
NoField == "absent"
\* An optional value: None is <<>>, a value v is <<v>>.
None == <<>>
Some(v) == <<v>>
NoHash == <<>>

VARIABLES
    pc,                 \* position of run(): start, a client of initialize, loop_start, serving, shutdown, closing, exited
    exc,                \* the exception that is leaving run(): none, error, exit
    landing,            \* where the SystemExit of signal_handler was raised: none, frame, loop
    startup,            \* initialize: pending, ok (returned), aborted (raised)
    running,            \* self.running
    conn,               \* per client: none (attribute None), created, open, closed
    connectLog,         \* clients in the order initialize connected them
    closeLog,           \* clients in the order shutdown closed them
    loopStarted,        \* mqtt_client.loop_start() was called
    connack,            \* on_mqtt_connect: none, ok (rc = 0, subscribed)
    statsPc,            \* run_statistics_reporter: none, sleep, publish, done, cancelled
    snapshot,           \* the stats dict built at the current tick
    published,          \* value of the redis key ingestion_stats
    messages_processed, \* self.messages_processed
    messages_failed,    \* self.messages_failed
    devices_active,     \* self.devices_active
    tasks,              \* the per-message coroutines, in creation order
    sinkLog,            \* per sink: the writes it accepted
    delivered,          \* number of messages and calls handled so far
    lastMsg,            \* what the last on_mqtt_message call did
    loaded,             \* the messages_failed that line 150 has read and not yet written back
    device_status,      \* the redis hashes device_status:{device_id}, one record per key
    device_configs,     \* the documents of the mongodb collection device_configs
    lpc,                \* AI engine, position of lifespan(): enter, a startup step, yield, close_redis, close_database, done
    lexc,               \* AI engine, the exception that is leaving lifespan(): none, error
    globals,            \* AI engine, per global service: none (None), created, open, closed
    started,            \* AI engine, the startup steps that succeeded, in order
    requests            \* AI engine, the endpoints that handled a request, in order

lifeVars == <<pc, exc, landing, startup, running, conn, connectLog, closeLog, loopStarted, connack>>
statVars == <<statsPc, snapshot, published>>
countVars == <<messages_processed, messages_failed, devices_active>>
taskVars == <<tasks, sinkLog>>
msgVars == <<delivered, lastMsg, loaded>>
storeVars == <<device_status, device_configs>>
aiVars == <<lpc, lexc, globals, started, requests>>
vars == <<lifeVars, statVars, countVars, taskVars, msgVars, storeVars, aiVars>>

----------------------------------------------------------------------------
\* Clients and sinks.

\* The global services of the AI engine (ai-engine/main.py, lines 43-49).
Globals == {"redis_client", "database_service", "blockchain_service", "emission_model",
            "iot_validator", "iot_quality_scorer", "certificate_generator"}

\* The AI engine before lifespan() is entered.
LifespanIdle ==
    /\ lpc = "enter"
    /\ lexc = "none"
    /\ globals = [g \in Globals |-> "none"]
    /\ started = <<>>
    /\ requests = <<>>

Clients == {"influxdb", "redis", "mongodb", "kafka", "mqtt"}
Sinks == {"influxdb", "kafka", "redis", "mongodb"}

\* initialize assigns these attributes before the call that may raise (redis
\* ping, mongodb ping, mqtt connect); for the others the constructor raises.
AssignedBeforeConnect == {"redis", "mongodb", "mqtt"}

\* The order in which initialize connects (lines 46-92), then line 396.
NextStep(c) ==
    CASE c = "influxdb" -> "redis"
      [] c = "redis" -> "mongodb"
      [] c = "mongodb" -> "kafka"
      [] c = "kafka" -> "mqtt"
      [] c = "mqtt" -> "loop_start"

----------------------------------------------------------------------------
\* Inputs.

Devices == {"dev1", "dev2"}

\* MQTT topics as their levels: msg.topic.split('/').
SensorTopics == {<<"carbon", "sensors", d, s, "data">> : d \in {"dev1"}, s \in {"co2", "data"}}
StatusTopics == {<<"carbon", "devices", d, "status">> : d \in {"dev1", "status"}}
ConfigTopics == {<<"carbon", "devices", d, "config">> : d \in {"dev1", "config"}}
OtherTopics == {<<"carbon", "unknown", "x">>}
Topics == SensorTopics \cup StatusTopics \cup ConfigTopics \cup OtherTopics

\* Payloads: json = FALSE is a payload json.loads rejects.
\* The keys process_sensor_data reads: value, quality, unit, timestamp, metadata.
ReadingPayload(v, q, u, ts, md) ==
    [json |-> TRUE, value |-> v, quality |-> q, device_id |-> NoField, status |-> NoField,
     unit |-> u, timestamp |-> ts, metadata |-> md, battery_level |-> None]
Payload(j, v, q, d, st) ==
    [json |-> j, value |-> v, quality |-> q, device_id |-> d, status |-> st,
     unit |-> NoField, timestamp |-> None, metadata |-> NoField, battery_level |-> None]
BadPayload == Payload(FALSE, None, None, NoField, NoField)
SensorPayloads == {Payload(TRUE, Some(450), None, NoField, NoField),
                   Payload(TRUE, Some(-5), None, NoField, NoField)}
StatusPayloads == {Payload(TRUE, None, None, "dev2", "online")}
Payloads == {BadPayload} \cup SensorPayloads \cup StatusPayloads

\* Sensor types process_sensor_data is called with.
SensorTypes == {"co2"}

----------------------------------------------------------------------------
\* The static bounds table, flattened over its categories.
IOT_SENSOR_CONFIGS ==
    [t \in {"co2", "pm25", "no2", "power_consumption", "voltage", "current",
            "temperature", "humidity", "pressure"} |->
        CASE t = "co2" -> [min_value |-> 300, max_value |-> 5000]
          [] t = "pm25" -> [min_value |-> 0, max_value |-> 500]
          [] t = "no2" -> [min_value |-> 0, max_value |-> 20]
          [] t = "power_consumption" -> [min_value |-> 0, max_value |-> 100000]
          [] t = "voltage" -> [min_value |-> 90, max_value |-> 260]
          [] t = "current" -> [min_value |-> 0, max_value |-> 1000]
          [] t = "temperature" -> [min_value |-> -40, max_value |-> 85]
          [] t = "humidity" -> [min_value |-> 0, max_value |-> 100]
          [] t = "pressure" -> [min_value |-> 300, max_value |-> 1100]]

\* SensorData(...) of lines 159-167: timestamp defaults to the time of the
\* call (now), unit to '', quality to 1.0, metadata to {}.
SensorData(device_id, sensor_type, data, now) ==
    [device_id |-> device_id, sensor_type |-> sensor_type,
     timestamp |-> IF data.timestamp = None THEN now ELSE data.timestamp[1],
     value |-> data.value[1],
     unit |-> IF data.unit = NoField THEN "" ELSE data.unit,
     quality |-> IF data.quality = None THEN 1 ELSE data.quality[1],
     metadata |-> IF data.metadata = NoField THEN "{}" ELSE data.metadata]

\* ValidationErrors with the bounds of the table taken as exclusive.
ValidationErrors_Exclusive(r) ==
    (IF r.sensor_type \notin DOMAIN IOT_SENSOR_CONFIGS THEN {"unknown_sensor_type"}
     ELSE IF r.value <= IOT_SENSOR_CONFIGS[r.sensor_type].min_value
             \/ r.value >= IOT_SENSOR_CONFIGS[r.sensor_type].max_value
          THEN {"out_of_range"} ELSE {})
    \cup (IF r.quality < 0 \/ r.quality > 1 THEN {"invalid_quality"} ELSE {})

\* ValidationErrors that skips the range check of a type without bounds.
ValidationErrors_UnknownPasses(r) ==
    (IF r.sensor_type \notin DOMAIN IOT_SENSOR_CONFIGS THEN {}
     ELSE IF r.value < IOT_SENSOR_CONFIGS[r.sensor_type].min_value
             \/ r.value > IOT_SENSOR_CONFIGS[r.sensor_type].max_value
          THEN {"out_of_range"} ELSE {})
    \cup (IF r.quality < 0 \/ r.quality > 1 THEN {"invalid_quality"} ELSE {})

\* utils.validation.validate_sensor_reading: the reasons a reading fails for.
ValidationErrors(r) ==
    (IF r.sensor_type \notin DOMAIN IOT_SENSOR_CONFIGS THEN {"unknown_sensor_type"}
     ELSE IF r.value < IOT_SENSOR_CONFIGS[r.sensor_type].min_value
             \/ r.value > IOT_SENSOR_CONFIGS[r.sensor_type].max_value
          THEN {"out_of_range"} ELSE {})
    \cup (IF r.quality < 0 \/ r.quality > 1 THEN {"invalid_quality"} ELSE {})

validate_sensor_reading(r) == ValidationErrors(r) = {}

\* hash_sensor_data as a digest of every field of the reading.
hash_sensor_data_All(r) ==
    <<r.device_id, r.sensor_type, r.timestamp, r.value, r.unit, r.quality, r.metadata>>

\* utils.crypto.hash_sensor_data: a digest of the five canonical fields.
hash_sensor_data(r) == <<r.device_id, r.sensor_type, r.timestamp, r.value, r.unit>>

----------------------------------------------------------------------------
Init ==
    /\ pc = "start"
    /\ exc = "none"
    /\ landing = "none"
    /\ startup = "pending"
    /\ running = FALSE
    /\ conn = [c \in Clients |-> "none"]
    /\ connectLog = <<>>
    /\ closeLog = <<>>
    /\ loopStarted = FALSE
    /\ connack = "none"
    /\ statsPc = "none"
    /\ snapshot = None
    /\ published = None
    /\ messages_processed = 0
    /\ messages_failed = 0
    /\ devices_active = {}
    /\ tasks = <<>>
    /\ sinkLog = [s \in Sinks |-> {}]
    /\ delivered = 0
    /\ lastMsg = None
    /\ loaded = None
    /\ device_status = {}
    /\ device_configs = {}
    /\ LifespanIdle

----------------------------------------------------------------------------
\* run() and initialize().

\* run() is entered: await self.initialize().
run_begin ==
    /\ pc = "start"
    /\ pc' = "influxdb"
    /\ UNCHANGED <<exc, landing, startup, running, conn, connectLog, closeLog, loopStarted, connack>>
    /\ UNCHANGED <<statVars, countVars, taskVars, msgVars>>
    /\ UNCHANGED storeVars
    /\ UNCHANGED aiVars

\* InitStep with an except clause that logs and does not raise: initialize
\* returns after the failed step, and run() goes on to line 396.
InitStep_NoRaise(c, ok) ==
    /\ pc = c
    /\ IF ok
       THEN /\ conn' = [conn EXCEPT ![c] = "open"]
            /\ connectLog' = Append(connectLog, c)
            /\ pc' = NextStep(c)
            /\ running' = (c = "mqtt")
            /\ startup' = IF c = "mqtt" THEN "ok" ELSE startup
       ELSE /\ conn' = [conn EXCEPT ![c] = IF c \in {"redis", "mongodb", "mqtt"} THEN "created" ELSE "none"]
            /\ connectLog' = connectLog
            /\ pc' = "loop_start"
            /\ running' = running
            /\ startup' = "aborted"
    /\ UNCHANGED <<exc, landing, closeLog, loopStarted, connack>>
    /\ UNCHANGED <<statsPc, snapshot, published, messages_processed, messages_failed,
                   devices_active, tasks, sinkLog, delivered, lastMsg, loaded>>
    /\ UNCHANGED storeVars
    /\ UNCHANGED aiVars

\* InitStep with a try around each step that logs and goes on to the next.
InitStep_Continue(c, ok) ==
    /\ pc = c
    /\ IF ok
       THEN /\ conn' = [conn EXCEPT ![c] = "open"]
            /\ connectLog' = Append(connectLog, c)
       ELSE /\ conn' = [conn EXCEPT ![c] = IF c \in {"redis", "mongodb", "mqtt"} THEN "created" ELSE "none"]
            /\ connectLog' = connectLog
    /\ pc' = NextStep(c)
    /\ running' = (c = "mqtt")
    /\ startup' = IF c = "mqtt" THEN "ok" ELSE startup
    /\ UNCHANGED <<exc, landing, closeLog, loopStarted, connack>>
    /\ UNCHANGED <<statVars, countVars, taskVars, msgVars, storeVars>>
    /\ UNCHANGED aiVars

\* One connection step of initialize. A step that raises leaves initialize
\* (except: log, raise) and run (except: log, raise; finally: shutdown).
InitStep(c, ok) ==
    /\ pc = c
    /\ IF ok
       THEN /\ conn' = [conn EXCEPT ![c] = "open"]
            /\ connectLog' = Append(connectLog, c)
            /\ pc' = NextStep(c)
            /\ running' = (c = "mqtt")
            /\ startup' = IF c = "mqtt" THEN "ok" ELSE startup
            /\ exc' = exc
       ELSE /\ conn' = [conn EXCEPT ![c] = IF c \in AssignedBeforeConnect THEN "created" ELSE "none"]
            /\ connectLog' = connectLog
            /\ pc' = "shutdown"
            /\ running' = running
            /\ startup' = "aborted"
            /\ exc' = "error"
    /\ UNCHANGED <<landing, closeLog, loopStarted, connack>>
    /\ UNCHANGED <<statVars, countVars, taskVars, msgVars>>
    /\ UNCHANGED storeVars
    /\ UNCHANGED aiVars

initialize == pc \in Clients /\ \E ok \in BOOLEAN : InitStep(pc, ok)

\* Lines 395-401: start the MQTT network loop and the statistics reporter.
run_start ==
    /\ pc = "loop_start"
    /\ loopStarted' = TRUE
    /\ statsPc' = "sleep"
    /\ pc' = "serving"
    /\ UNCHANGED <<exc, landing, startup, running, conn, connectLog, closeLog, connack>>
    /\ UNCHANGED <<snapshot, published, countVars, taskVars, msgVars>>
    /\ UNCHANGED storeVars
    /\ UNCHANGED aiVars

\* on_mqtt_connect: subscribes to the three topic filters when rc = 0.
on_mqtt_connect(rc) ==
    /\ loopStarted
    /\ conn["mqtt"] = "open"
    /\ connack = "none"
    /\ connack' = IF rc = 0 THEN "ok" ELSE connack
    /\ UNCHANGED <<pc, exc, landing, startup, running, conn, connectLog, closeLog, loopStarted>>
    /\ UNCHANGED <<statVars, countVars, taskVars, msgVars>>
    /\ UNCHANGED storeVars
    /\ UNCHANGED aiVars

subscribed == connack = "ok"

----------------------------------------------------------------------------
\* on_mqtt_message.

\* topic_parts[k] with Python's 0-based index.
Part(topic_parts, k) == topic_parts[k + 1]

\* Lines 130-146: the branch taken and the arguments of the coroutine.
Route(topic_parts) ==
    IF Len(topic_parts) >= 4 /\ Part(topic_parts, 3) = "data"
    THEN [kind |-> "sensor", device_id |-> Part(topic_parts, 2),
          sensor_type |-> IF Len(topic_parts) > 4 THEN Part(topic_parts, 3) ELSE "unknown"]
    ELSE IF Len(topic_parts) >= 3 /\ Part(topic_parts, 2) = "status"
    THEN [kind |-> "status", device_id |-> Part(topic_parts, 1), sensor_type |-> NoField]
    ELSE IF Len(topic_parts) >= 3 /\ Part(topic_parts, 2) = "config"
    THEN [kind |-> "config", device_id |-> Part(topic_parts, 1), sensor_type |-> NoField]
    ELSE [kind |-> "none", device_id |-> NoField, sensor_type |-> NoField]

\* The steps of process_sensor_data that send a command to a sink.
WriteSteps == {"influxdb", "kafka", "redis", "redis_expire", "mongodb"}

\* A coroutine handed to asyncio.create_task, or awaited by a caller. now is
\* the time of the call, counted in messages and calls.
NewTask(kind, device_id, sensor_type, payload, via) ==
    [kind |-> kind, device_id |-> device_id, sensor_type |-> sensor_type,
     payload |-> payload, via |-> via, now |-> delivered + 1, pc |-> "parse",
     data_hash |-> NoHash, valid |-> "pending", reasons |-> {}, attempted |-> {},
     failed |-> {}, tries |-> [st \in WriteSteps |-> 0], ttl |-> None,
     counted |-> "none", raised |-> FALSE]

\* on_mqtt_message(client, userdata, msg). onLoop: the calling thread runs the
\* event loop; asyncio.create_task raises RuntimeError otherwise (the thread
\* of loop_start has no running loop), which line 148 catches. The
\* statement of line 150 then reads messages_failed here and writes it back
\* in on_mqtt_message_count: it runs in the network thread, beside the
\* event loop.
on_mqtt_message(topic, payload, onLoop) ==
    /\ pc = "serving"
    /\ subscribed
    /\ conn["mqtt"] = "open"
    /\ delivered < MaxInputs
    /\ loaded = None
    /\ LET r == Route(topic)
           spawn == r.kind # "none" /\ onLoop
           caught == r.kind # "none" /\ ~onLoop
       IN /\ tasks' = IF spawn
                      THEN Append(tasks, NewTask(r.kind, r.device_id, r.sensor_type, payload, "mqtt"))
                      ELSE tasks
          /\ loaded' = IF caught THEN Some(messages_failed) ELSE loaded
          /\ lastMsg' = Some([topic |-> topic, onLoop |-> onLoop,
                         spawned |-> IF spawn THEN r.kind ELSE "none",
                         device_id |-> IF spawn THEN r.device_id ELSE NoField,
                         sensor_type |-> IF spawn THEN r.sensor_type ELSE NoField,
                         failed_delta |-> IF caught THEN 1 ELSE 0,
                         raised |-> FALSE])
    /\ delivered' = delivered + 1
    /\ UNCHANGED <<lifeVars, statVars, countVars, sinkLog>>
    /\ UNCHANGED storeVars
    /\ UNCHANGED aiVars

\* Line 150, the store of self.messages_failed += 1 in the network thread.
on_mqtt_message_count ==
    /\ loaded # None
    /\ messages_failed' = loaded[1] + 1
    /\ loaded' = None
    /\ UNCHANGED <<lifeVars, statVars, messages_processed, devices_active, taskVars,
                   delivered, lastMsg>>
    /\ UNCHANGED storeVars
    /\ UNCHANGED aiVars

\* process_sensor_data(device_id, sensor_type, payload) awaited on the event
\* loop by a caller other than on_mqtt_message.
call_process_sensor_data(device_id, sensor_type, payload) ==
    /\ pc = "serving"
    /\ delivered < MaxInputs
    /\ tasks' = Append(tasks, NewTask("sensor", device_id, sensor_type, payload, "call"))
    /\ delivered' = delivered + 1
    /\ UNCHANGED <<lifeVars, statVars, countVars, sinkLog, lastMsg, loaded>>
    /\ UNCHANGED storeVars
    /\ UNCHANGED aiVars

----------------------------------------------------------------------------
\* The per-message coroutines. They run while run() is suspended.

At(i, kind, step) ==
    /\ i \in DOMAIN tasks
    /\ pc \in {"serving", "closing"}
    /\ tasks[i].kind = kind
    /\ tasks[i].pc = step

\* A write succeeds only on an open connection.
WriteOutcome(s, ok) == ok => conn[s] = "open"

SinkEntry(i, key) ==
    [id |-> i, kind |-> tasks[i].kind, key |-> key, data_hash |-> tasks[i].data_hash]

\* except Exception of process_sensor_data (lines 198-200).
SensorCaught(t) == [t EXCEPT !.pc = "done", !.raised = TRUE, !.counted = "failed"]

\* Lines 156-167: json.loads and the SensorData constructor.
SensorParsed(t) ==
    IF ~t.payload.json \/ t.payload.value = None
    THEN SensorCaught(t)
    ELSE [t EXCEPT !.pc = "validate"]

sensor_parse(i) ==
    /\ At(i, "sensor", "parse")
    /\ tasks' = [tasks EXCEPT ![i] = SensorParsed(@)]
    /\ messages_failed' = IF SensorParsed(tasks[i]).raised THEN messages_failed + 1 ELSE messages_failed
    /\ UNCHANGED <<lifeVars, statVars, messages_processed, devices_active, sinkLog, msgVars>>
    /\ UNCHANGED storeVars
    /\ UNCHANGED aiVars

\* SensorValidated without the return of line 173.
SensorValidated_NoReturn(t) ==
    LET sensor_data == SensorData(t.device_id, t.sensor_type, t.payload, t.now)
    IN [t EXCEPT !.pc = "influxdb",
                 !.valid = IF validate_sensor_reading(sensor_data) THEN "pass" ELSE "fail",
                 !.data_hash = IF validate_sensor_reading(sensor_data)
                               THEN hash_sensor_data(sensor_data) ELSE NoHash]

\* SensorValidated with the hash of lines 176-177 computed before line 170.
SensorValidated_HashFirst(t) ==
    LET sensor_data == SensorData(t.device_id, t.sensor_type, t.payload, t.now)
    IN IF ~validate_sensor_reading(sensor_data)
       THEN [t EXCEPT !.pc = "done", !.valid = "fail", !.data_hash = hash_sensor_data(sensor_data)]
       ELSE [t EXCEPT !.pc = "influxdb", !.valid = "pass",
                      !.data_hash = hash_sensor_data(sensor_data)]

\* Lines 170-177: validation, the early return, the hash.
SensorValidated(t) ==
    LET sensor_data == SensorData(t.device_id, t.sensor_type, t.payload, t.now)
    IN IF ~validate_sensor_reading(sensor_data)
       THEN [t EXCEPT !.pc = "done", !.valid = "fail", !.reasons = ValidationErrors(sensor_data)]
       ELSE [t EXCEPT !.pc = "influxdb", !.valid = "pass",
                      !.data_hash = hash_sensor_data(sensor_data)]

sensor_validate(i) ==
    /\ At(i, "sensor", "validate")
    /\ tasks' = [tasks EXCEPT ![i] = SensorValidated(@)]
    /\ UNCHANGED <<lifeVars, statVars, countVars, sinkLog, msgVars>>
    /\ UNCHANGED storeVars
    /\ UNCHANGED aiVars

\* Reraises with no sink method raising to its caller.
Reraises_None(s) == FALSE

\* Reraises with every sink method raising to its caller.
Reraises_All(s) == TRUE

\* store_in_influxdb and publish_to_kafka log and re-raise (lines 275-277,
\* 288-290); cache_latest_reading and store_metadata_in_mongodb only log.
Reraises(s) == s \in {"influxdb", "kafka"}

\* AfterWrite with a failed write sent again.
AfterWrite_Retry(t, s, ok, next) ==
    LET u == [t EXCEPT !.attempted = @ \cup {s}, !.tries[t.pc] = @ + 1]
    IN IF ok THEN [u EXCEPT !.pc = next] ELSE [u EXCEPT !.failed = @ \cup {s}]

\* The task after the write to sink s, which leads to step next when it
\* does not raise into process_sensor_data.
AfterWrite(t, s, ok, next) ==
    LET u == [t EXCEPT !.attempted = @ \cup {s}, !.tries[t.pc] = @ + 1]
    IN IF ok
       THEN [u EXCEPT !.pc = next]
       ELSE IF Reraises(s)
            THEN [SensorCaught(u) EXCEPT !.failed = @ \cup {s}]
            ELSE [u EXCEPT !.pc = next, !.failed = @ \cup {s}]

store_in_influxdb(i, ok) ==
    /\ At(i, "sensor", "influxdb")
    /\ WriteOutcome("influxdb", ok)
    /\ tasks' = [tasks EXCEPT ![i] = AfterWrite(@, "influxdb", ok, "kafka")]
    /\ sinkLog' = IF ok
                  THEN [sinkLog EXCEPT !["influxdb"] = @ \cup
                            {SinkEntry(i, <<tasks[i].device_id, tasks[i].sensor_type>>)}]
                  ELSE sinkLog
    /\ messages_failed' = IF tasks'[i].raised THEN messages_failed + 1 ELSE messages_failed
    /\ UNCHANGED <<lifeVars, statVars, messages_processed, devices_active, msgVars>>
    /\ UNCHANGED storeVars
    /\ UNCHANGED aiVars

\* publish_to_kafka('sensor-data', sensor_data.dict()): key = data.get('device_id').
publish_to_kafka(i, ok) ==
    /\ At(i, "sensor", "kafka")
    /\ WriteOutcome("kafka", ok)
    /\ tasks' = [tasks EXCEPT ![i] = AfterWrite(@, "kafka", ok, "redis")]
    /\ sinkLog' = IF ok
                  THEN [sinkLog EXCEPT !["kafka"] = @ \cup {SinkEntry(i, tasks[i].device_id)}]
                  ELSE sinkLog
    /\ messages_failed' = IF tasks'[i].raised THEN messages_failed + 1 ELSE messages_failed
    /\ UNCHANGED <<lifeVars, statVars, messages_processed, devices_active, msgVars>>
    /\ UNCHANGED storeVars
    /\ UNCHANGED aiVars

\* cache_latest_reading, the hset of lines 297-306.
cache_hset(i, ok) ==
    /\ At(i, "sensor", "redis")
    /\ WriteOutcome("redis", ok)
    /\ tasks' = [tasks EXCEPT ![i] = AfterWrite(@, "redis", ok, IF ok THEN "redis_expire" ELSE "mongodb")]
    /\ sinkLog' = IF ok
                  THEN [sinkLog EXCEPT !["redis"] = @ \cup
                            {SinkEntry(i, <<"latest", tasks[i].device_id, tasks[i].sensor_type>>)}]
                  ELSE sinkLog
    /\ messages_failed' = IF tasks'[i].raised THEN messages_failed + 1 ELSE messages_failed
    /\ UNCHANGED <<lifeVars, statVars, messages_processed, devices_active, msgVars>>
    /\ UNCHANGED storeVars
    /\ UNCHANGED aiVars

\* cache_latest_reading, the expire of line 309: the key gets its time to live.
cache_expire(i, ok) ==
    /\ At(i, "sensor", "redis_expire")
    /\ WriteOutcome("redis", ok)
    /\ tasks' = [tasks EXCEPT ![i] = [AfterWrite(@, "redis", ok, "mongodb")
                                          EXCEPT !.ttl = IF ok THEN Some(3600) ELSE @]]
    /\ messages_failed' = IF tasks'[i].raised THEN messages_failed + 1 ELSE messages_failed
    /\ UNCHANGED <<lifeVars, statVars, messages_processed, devices_active, sinkLog, msgVars>>
    /\ UNCHANGED storeVars
    /\ UNCHANGED aiVars

\* Lines 191-193, reached when store_metadata_in_mongodb returns.
SensorCounted(t) == IF t.raised THEN t ELSE [t EXCEPT !.pc = "done", !.counted = "processed"]

\* store_metadata_in_mongodb, then the statistics update.
store_metadata_in_mongodb(i, ok) ==
    /\ At(i, "sensor", "mongodb")
    /\ WriteOutcome("mongodb", ok)
    /\ tasks' = [tasks EXCEPT ![i] = SensorCounted(AfterWrite(@, "mongodb", ok, "count"))]
    /\ sinkLog' = IF ok
                  THEN [sinkLog EXCEPT !["mongodb"] = @ \cup {SinkEntry(i, tasks[i].device_id)}]
                  ELSE sinkLog
    /\ IF tasks'[i].raised
       THEN /\ messages_failed' = messages_failed + 1
            /\ UNCHANGED <<messages_processed, devices_active>>
       ELSE /\ messages_processed' = messages_processed + 1
            /\ devices_active' = devices_active \cup {tasks[i].device_id}
            /\ messages_failed' = messages_failed
    /\ UNCHANGED <<lifeVars, statVars, msgVars>>
    /\ UNCHANGED storeVars
    /\ UNCHANGED aiVars

----------------------------------------------------------------------------
\* process_device_status and process_device_config: their except clauses
\* only log (lines 229-230, 252-253).

Logged(t) == [t EXCEPT !.pc = "done", !.raised = TRUE]

\* Line 205 and line 235: json.loads.
Parsed(t, next) == IF ~t.payload.json THEN Logged(t) ELSE [t EXCEPT !.pc = next]

status_parse(i) ==
    /\ At(i, "status", "parse")
    /\ tasks' = [tasks EXCEPT ![i] = Parsed(@, "status_hset")]
    /\ UNCHANGED <<lifeVars, statVars, countVars, sinkLog, msgVars>>
    /\ UNCHANGED storeVars
    /\ UNCHANGED aiVars

\* The mapping of lines 210-217 for the call t, built at time.
StatusMapping(t, time) ==
    [device_id |-> t.device_id,
     by |-> t.now,            \* the call that wrote the record
     status |-> IF t.payload.status = NoField THEN "unknown" ELSE t.payload.status,
     battery_level |-> IF t.payload.battery_level = None THEN 0 ELSE t.payload.battery_level[1],
     signal_strength |-> 0,
     last_seen |-> time,
     firmware_version |-> "",
     ip_address |-> ""]

\* StatusWritten with mapping=data: only the fields of the payload are set,
\* the others keep what the key held.
StatusWritten_Partial(store, t, time) ==
    LET old == {r \in store : r.device_id = t.device_id}
        new == StatusMapping(t, time)
    IN {r \in store : r.device_id # t.device_id} \cup
       (IF old = {} THEN {new}
        ELSE {[new EXCEPT !.status = IF t.payload.status = NoField THEN r.status ELSE @,
                          !.battery_level = IF t.payload.battery_level = None
                                            THEN r.battery_level ELSE @] : r \in old})

\* The hashes after hset(f"device_status:{device_id}", mapping=...): every
\* field of the mapping replaces the one stored under the key.
StatusWritten(store, t, time) ==
    {r \in store : r.device_id # t.device_id} \cup {StatusMapping(t, time)}

\* Lines 208-218: hset of device_status:{device_id}.
status_hset(i, ok) ==
    /\ At(i, "status", "status_hset")
    /\ WriteOutcome("redis", ok)
    /\ tasks' = [tasks EXCEPT ![i] = IF ok THEN [@ EXCEPT !.pc = "status_kafka"] ELSE Logged(@)]
    /\ sinkLog' = IF ok
                  THEN [sinkLog EXCEPT !["redis"] = @ \cup
                            {SinkEntry(i, <<"device_status", tasks[i].device_id>>)}]
                  ELSE sinkLog
    /\ device_status' = IF ok THEN StatusWritten(device_status, tasks[i], delivered)
                        ELSE device_status
    /\ UNCHANGED <<lifeVars, statVars, countVars, msgVars, device_configs>>
    /\ UNCHANGED aiVars

\* The message of lines 221-225: {'device_id': device_id, ..., **data}, so
\* a device_id of the payload replaces the one of the topic; the key is
\* data.get('device_id') of that message (line 284).
StatusKey(t) == IF t.payload.device_id = NoField THEN t.device_id ELSE t.payload.device_id

status_kafka(i, ok) ==
    /\ At(i, "status", "status_kafka")
    /\ WriteOutcome("kafka", ok)
    /\ tasks' = [tasks EXCEPT ![i] = IF ok THEN [@ EXCEPT !.pc = "done"] ELSE Logged(@)]
    /\ sinkLog' = IF ok
                  THEN [sinkLog EXCEPT !["kafka"] = @ \cup {SinkEntry(i, StatusKey(tasks[i]))}]
                  ELSE sinkLog
    /\ UNCHANGED <<lifeVars, statVars, countVars, msgVars>>
    /\ UNCHANGED storeVars
    /\ UNCHANGED aiVars

config_parse(i) ==
    /\ At(i, "config", "parse")
    /\ tasks' = [tasks EXCEPT ![i] = Parsed(@, "config_upsert")]
    /\ UNCHANGED <<lifeVars, statVars, countVars, sinkLog, msgVars>>
    /\ UNCHANGED storeVars
    /\ UNCHANGED aiVars

\* Upserted with insert_one in the place of update_one.
Upserted_Insert(coll, t) ==
    coll \cup {[device_id |-> t.device_id, config |-> t.payload, by |-> t.now]}

\* The collection after update_one({'device_id': device_id}, {'$set': ...},
\* upsert=True) of the call t: the document of the device is set, or a new
\* one inserted.
Upserted(coll, t) ==
    {r \in coll : r.device_id # t.device_id}
        \cup {[device_id |-> t.device_id, config |-> t.payload, by |-> t.now]}

\* Lines 238-248: update_one({'device_id': device_id}, ..., upsert=True).
config_upsert(i, ok) ==
    /\ At(i, "config", "config_upsert")
    /\ WriteOutcome("mongodb", ok)
    /\ tasks' = [tasks EXCEPT ![i] = IF ok THEN [@ EXCEPT !.pc = "done"] ELSE Logged(@)]
    /\ sinkLog' = IF ok
                  THEN [sinkLog EXCEPT !["mongodb"] = @ \cup {SinkEntry(i, tasks[i].device_id)}]
                  ELSE sinkLog
    /\ device_configs' = IF ok THEN Upserted(device_configs, tasks[i]) ELSE device_configs
    /\ UNCHANGED <<lifeVars, statVars, countVars, msgVars, device_status>>
    /\ UNCHANGED aiVars

----------------------------------------------------------------------------
\* run_statistics_reporter.

\* Lines 337-346, without the timestamp; success_rate in percent.
Stats ==
    [messages_processed |-> messages_processed,
     messages_failed |-> messages_failed,
     active_devices |-> Cardinality(devices_active),
     success_rate |-> IF messages_processed + messages_failed > 0
                      THEN (100 * messages_processed) \div (messages_processed + messages_failed)
                      ELSE 0]

\* The sleep of line 335 ends: the stats are built and the set is awaited.
stats_tick ==
    /\ statsPc = "sleep"
    /\ pc \in {"serving", "closing"}
    /\ snapshot' = Some(Stats)
    /\ statsPc' = "publish"
    /\ UNCHANGED <<lifeVars, published, countVars, taskVars, msgVars>>
    /\ UNCHANGED storeVars
    /\ UNCHANGED aiVars

\* while self.running (line 333), evaluated when an iteration ends.
StatsLoop == IF running THEN "sleep" ELSE "done"

\* The counters after the set of line 349 returned or raised.
StatsReset(ok, n) == IF ok THEN 0 ELSE n

\* The set of line 349 returns (lines 355-362 follow) or raises (line 365).
stats_publish(ok) ==
    /\ statsPc = "publish"
    /\ pc \in {"serving", "closing"}
    /\ WriteOutcome("redis", ok)
    /\ published' = IF ok THEN snapshot ELSE published
    /\ messages_processed' = StatsReset(ok, messages_processed)
    /\ messages_failed' = StatsReset(ok, messages_failed)
    /\ devices_active' = IF ok THEN {} ELSE devices_active
    /\ snapshot' = None
    /\ statsPc' = StatsLoop
    /\ UNCHANGED <<lifeVars, taskVars, msgVars>>
    /\ UNCHANGED storeVars
    /\ UNCHANGED aiVars

----------------------------------------------------------------------------
\* signal_handler and shutdown.

\* Every coroutine that has not returned is cancelled.
CancelAll(ts) ==
    [i \in DOMAIN ts |-> IF ts[i].pc \in {"done", "cancelled"} THEN ts[i]
                         ELSE [ts[i] EXCEPT !.pc = "cancelled"]]

CancelStats(p) == IF p \in {"sleep", "publish"} THEN "cancelled" ELSE p

\* The clients shutdown closes before it awaits, in its order (lines 373-383).
CloseFirst == <<"mqtt", "kafka", "influxdb", "redis">>

Closed(cn, c) == IF cn[c] = "none" THEN cn ELSE [cn EXCEPT ![c] = "closed"]

RECURSIVE CloseAll(_, _)
CloseAll(cn, cs) == IF cs = <<>> THEN cn ELSE CloseAll(Closed(cn, Head(cs)), Tail(cs))

ClosedNow(cs) == SelectSeq(cs, LAMBDA c : conn[c] # "none")

\* shutdown up to the await of line 383: no other coroutine runs meanwhile.
ShutdownSync ==
    /\ running' = FALSE
    /\ conn' = CloseAll(conn, CloseFirst)
    /\ closeLog' = closeLog \o ClosedNow(CloseFirst)
    /\ pc' = "closing"

\* signal_handler: sys.exit(0) raises SystemExit in the main thread.
\* where = "frame": in the frame of run() or initialize(); it passes the
\* except clauses and enters finally. where = "loop": in the event loop
\* while run() is suspended; asyncio.run cancels every task, and run()
\* enters finally on the CancelledError. Either way shutdown() starts.
signal_handler(where) ==
    /\ exc = "none"
    /\ pc \in {"influxdb", "redis", "mongodb", "kafka", "mqtt", "loop_start", "serving"}
    /\ where = "loop" => pc \in {"redis", "mongodb", "serving"}
    /\ exc' = "exit"
    /\ landing' = where
    /\ startup' = IF startup = "pending" THEN "aborted" ELSE startup
    /\ tasks' = IF where = "loop" THEN CancelAll(tasks) ELSE tasks
    /\ statsPc' = IF where = "loop" THEN CancelStats(statsPc) ELSE statsPc
    /\ ShutdownSync
    /\ UNCHANGED <<connectLog, loopStarted, connack>>
    /\ UNCHANGED <<snapshot, published, countVars, sinkLog, msgVars>>
    /\ UNCHANGED storeVars
    /\ UNCHANGED aiVars

\* shutdown entered from finally after initialize raised.
shutdown_begin ==
    /\ pc = "shutdown"
    /\ ShutdownSync
    /\ UNCHANGED <<exc, landing, startup, connectLog, loopStarted, connack>>
    /\ UNCHANGED <<statVars, countVars, taskVars, msgVars>>
    /\ UNCHANGED storeVars
    /\ UNCHANGED aiVars

\* shutdown from line 385 on; run() ends, and asyncio.run cancels what is left.
shutdown_finish ==
    /\ pc = "closing"
    /\ conn' = Closed(conn, "mongodb")
    /\ closeLog' = closeLog \o ClosedNow(<<"mongodb">>)
    /\ pc' = "exited"
    /\ tasks' = CancelAll(tasks)
    /\ statsPc' = CancelStats(statsPc)
    /\ UNCHANGED <<exc, landing, startup, running, connectLog, loopStarted, connack>>
    /\ UNCHANGED <<snapshot, published, countVars, sinkLog, msgVars>>
    /\ UNCHANGED storeVars
    /\ UNCHANGED aiVars

----------------------------------------------------------------------------
Next ==
    \/ run_begin
    \/ initialize
    \/ run_start
    \/ \E rc \in {0, 5} : on_mqtt_connect(rc)
    \/ \E topic \in Topics, payload \in Payloads, onLoop \in BOOLEAN :
           on_mqtt_message(topic, payload, onLoop)
    \/ on_mqtt_message_count
    \/ \E d \in Devices, s \in SensorTypes, p \in Payloads : call_process_sensor_data(d, s, p)
    \/ \E i \in 1..MaxInputs : sensor_parse(i)
    \/ \E i \in 1..MaxInputs : sensor_validate(i)
    \/ \E i \in 1..MaxInputs, ok \in BOOLEAN : store_in_influxdb(i, ok)
    \/ \E i \in 1..MaxInputs, ok \in BOOLEAN : publish_to_kafka(i, ok)
    \/ \E i \in 1..MaxInputs, ok \in BOOLEAN : cache_hset(i, ok)
    \/ \E i \in 1..MaxInputs, ok \in BOOLEAN : cache_expire(i, ok)
    \/ \E i \in 1..MaxInputs, ok \in BOOLEAN : store_metadata_in_mongodb(i, ok)
    \/ \E i \in 1..MaxInputs : status_parse(i)
    \/ \E i \in 1..MaxInputs, ok \in BOOLEAN : status_hset(i, ok)
    \/ \E i \in 1..MaxInputs, ok \in BOOLEAN : status_kafka(i, ok)
    \/ \E i \in 1..MaxInputs : config_parse(i)
    \/ \E i \in 1..MaxInputs, ok \in BOOLEAN : config_upsert(i, ok)
    \/ stats_tick
    \/ stats_publish(TRUE)
    \/ stats_publish(FALSE)
    \/ \E where \in {"frame", "loop"} : signal_handler(where)
    \/ shutdown_begin
    \/ shutdown_finish

Spec == Init /\ [][Next]_vars

----------------------------------------------------------------------------
\* process_sensor_data on its own: one call on a service that is serving,
\* with readings around the bounds of every sensor type.

\* The sensor types on_mqtt_message passes (lines 133-134) for the topics
\* that reach its first branch.
RouterTags == {"data", "unknown"}

ProbeTypes == DOMAIN IOT_SENSOR_CONFIGS \cup RouterTags

ProbeValues(t) ==
    IF t \in DOMAIN IOT_SENSOR_CONFIGS
    THEN {IOT_SENSOR_CONFIGS[t].min_value - 1, IOT_SENSOR_CONFIGS[t].min_value,
          IOT_SENSOR_CONFIGS[t].max_value, IOT_SENSOR_CONFIGS[t].max_value + 1}
         \cup (IF t = "co2" THEN {450, -5} ELSE {})
    ELSE {450}

ProbeQualities == {None, Some(-1), Some(0), Some(1), Some(2)}

ProbePayloads(t) ==
    {ReadingPayload(Some(v), q, u, ts, md) :
        v \in ProbeValues(t), q \in ProbeQualities, u \in {NoField, "ppm"},
        ts \in {None, Some(1)}, md \in {NoField, "m"}}

\* The service after initialize and lines 395-401, the subscription made.
Serving ==
    /\ pc = "serving"
    /\ exc = "none"
    /\ landing = "none"
    /\ startup = "ok"
    /\ running = TRUE
    /\ conn = [c \in Clients |-> "open"]
    /\ connectLog = <<"influxdb", "redis", "mongodb", "kafka", "mqtt">>
    /\ closeLog = <<>>
    /\ loopStarted = TRUE
    /\ connack = "ok"
    /\ statsPc = "sleep"
    /\ snapshot = None
    /\ published = None
    /\ messages_processed = 0
    /\ messages_failed = 0
    /\ devices_active = {}
    /\ sinkLog = [s \in Sinks |-> {}]
    /\ lastMsg = None
    /\ loaded = None
    /\ device_status = {}
    /\ device_configs = {}
    /\ LifespanIdle

\* Serving, and process_sensor_data has been called once.
ReadingsInit ==
    /\ Serving
    /\ delivered = 1
    /\ \E t \in ProbeTypes : \E p \in ProbePayloads(t) :
           tasks = <<[NewTask("sensor", "dev1", t, p, "call") EXCEPT !.now = 1]>>

ReadingsNext ==
    \/ sensor_parse(1)
    \/ sensor_validate(1)
    \/ \E ok \in BOOLEAN : store_in_influxdb(1, ok)
    \/ \E ok \in BOOLEAN : publish_to_kafka(1, ok)
    \/ \E ok \in BOOLEAN : cache_hset(1, ok)
    \/ \E ok \in BOOLEAN : cache_expire(1, ok)
    \/ \E ok \in BOOLEAN : store_metadata_in_mongodb(1, ok)

ReadingsSpec == ReadingsInit /\ [][ReadingsNext]_vars

----------------------------------------------------------------------------
\* process_device_status and process_device_config on their own: two calls
\* on a service that is serving.

\* A status or config payload: the keys status and battery_level.
DevicePayload(st, b) == [Payload(TRUE, None, None, NoField, st) EXCEPT !.battery_level = b]

DevicePayloads ==
    {BadPayload} \cup {DevicePayload(st, b) : st \in {NoField, "online", "offline"},
                                               b \in {None, Some(90)}}

\* The k-th call: process_device_status or process_device_config.
DeviceCalls(k) ==
    {[NewTask(kind, d, NoField, p, "call") EXCEPT !.now = k] :
        kind \in {"status", "config"}, d \in Devices, p \in DevicePayloads}

\* Serving, and two calls have been made.
DeviceInit ==
    /\ Serving
    /\ delivered = 2
    /\ \E t1 \in DeviceCalls(1) : \E t2 \in DeviceCalls(2) : tasks = <<t1, t2>>

DeviceNext ==
    \/ \E i \in 1..2 : status_parse(i)
    \/ \E i \in 1..2, ok \in BOOLEAN : status_hset(i, ok)
    \/ \E i \in 1..2, ok \in BOOLEAN : status_kafka(i, ok)
    \/ \E i \in 1..2 : config_parse(i)
    \/ \E i \in 1..2, ok \in BOOLEAN : config_upsert(i, ok)

DeviceSpec == DeviceInit /\ [][DeviceNext]_vars

----------------------------------------------------------------------------
\* The AI engine: lifespan() of ai-engine/main.py and the requests served
\* while it is suspended at its yield.

\* The startup steps in the order of lines 62-98, named by what they set up.
StartupSteps ==
    <<"redis_client", "database_service", "blockchain_service", "emission_model",
      "iot_validator", "iot_quality_scorer", "certificate_generator", "setup_monitoring">>

\* What follows startup step number k.
AfterStep(k) == IF k = Len(StartupSteps) THEN "yield" ELSE StartupSteps[k + 1]

\* A step ends "ok", or raises in its constructor ("ctor", the global stays
\* None), or raises in the call that follows the assignment ("call").
StepOutcomes == {"ok", "ctor", "call"}

\* The globals after step g ended with outcome out; setup_monitoring sets none.
GlobalsAfter(g, out) ==
    IF g \notin Globals \/ out = "ctor" THEN globals
    ELSE [globals EXCEPT ![g] = IF out = "ok" THEN "open" ELSE "created"]

\* Endpoints of the application (lines 143, 181, 242).
Endpoints == {"health_check", "calculate_emissions", "validate_iot_data"}

IngestionVars == <<lifeVars, statVars, countVars, taskVars, msgVars, storeVars>>

\* The application starts: lifespan() runs up to its first step.
lifespan_enter ==
    /\ lpc = "enter"
    /\ lpc' = StartupSteps[1]
    /\ UNCHANGED <<lexc, globals, started, requests, IngestionVars>>

\* LifespanStep with an except clause that logs and goes on.
LifespanStep_Swallow(k, out) ==
    /\ lpc = StartupSteps[k]
    /\ globals' = GlobalsAfter(StartupSteps[k], out)
    /\ started' = IF out = "ok" THEN Append(started, StartupSteps[k]) ELSE started
    /\ lpc' = AfterStep(k)
    /\ UNCHANGED <<lexc, requests, IngestionVars>>

\* Startup step number k of lifespan(). A step that raises leaves the try
\* block: except logs and re-raises, finally runs first.
LifespanStep(k, out) ==
    /\ lpc = StartupSteps[k]
    /\ globals' = GlobalsAfter(StartupSteps[k], out)
    /\ IF out = "ok"
       THEN /\ started' = Append(started, StartupSteps[k])
            /\ lpc' = AfterStep(k)
            /\ lexc' = lexc
       ELSE /\ started' = started
            /\ lpc' = "close_redis"
            /\ lexc' = "error"
    /\ UNCHANGED <<requests, IngestionVars>>

\* A request is handled: the server accepts requests between the yield of
\* lifespan() and its resumption.
handle_request(e) ==
    /\ lpc = "yield"
    /\ Len(requests) < MaxRequests
    /\ requests' = Append(requests, e)
    /\ UNCHANGED <<lpc, lexc, globals, started, IngestionVars>>

\* lifespan() is resumed at its yield, by a return of the server (finally
\* runs) or by an exception thrown in (except re-raises, finally runs).
lifespan_resume(thrown) ==
    /\ lpc = "yield"
    /\ lpc' = "close_redis"
    /\ lexc' = IF thrown THEN "error" ELSE lexc
    /\ UNCHANGED <<globals, started, requests, IngestionVars>>

\* Lines 112-113: if redis_client: await redis_client.close().
close_redis ==
    /\ lpc = "close_redis"
    /\ globals' = IF globals["redis_client"] = "none" THEN globals
                  ELSE [globals EXCEPT !["redis_client"] = "closed"]
    /\ lpc' = "close_database"
    /\ UNCHANGED <<lexc, started, requests, IngestionVars>>

\* Lines 115-116: if database_service: await database_service.close().
close_database ==
    /\ lpc = "close_database"
    /\ globals' = IF globals["database_service"] = "none" THEN globals
                  ELSE [globals EXCEPT !["database_service"] = "closed"]
    /\ lpc' = "done"
    /\ UNCHANGED <<lexc, started, requests, IngestionVars>>

LifespanNext ==
    \/ lifespan_enter
    \/ \E k \in DOMAIN StartupSteps, out \in StepOutcomes : LifespanStep(k, out)
    \/ \E e \in Endpoints : handle_request(e)
    \/ \E thrown \in BOOLEAN : lifespan_resume(thrown)
    \/ close_redis
    \/ close_database

LifespanSpec == Init /\ [][LifespanNext]_vars

----------------------------------------------------------------------------
\* The subjects of the specification, by their levels.

IsSensorSubject(topic) == Len(topic) = 5 /\ topic[2] = "sensors" /\ topic[5] = "data"
IsStatusSubject(topic) == Len(topic) = 4 /\ topic[2] = "devices" /\ topic[4] = "status"
IsConfigSubject(topic) == Len(topic) = 4 /\ topic[2] = "devices" /\ topic[4] = "config"
IsRoutable(topic) == IsSensorSubject(topic) \/ IsStatusSubject(topic) \/ IsConfigSubject(topic)

SensorTasks == {i \in DOMAIN tasks : tasks[i].kind = "sensor"}

\* The reading of a sensor task is one validate_sensor_reading accepts.
ReadingValid(t) ==
    /\ t.payload.json
    /\ t.payload.value # None
    /\ validate_sensor_reading(SensorData(t.device_id, t.sensor_type, t.payload, t.now))

\* C1: a message on .../sensors/{deviceId}/{sensorType}/data handled on the
\* event loop starts process_sensor_data with exactly these two levels; one
\* on .../devices/{deviceId}/status or /config starts the status or config
\* coroutine with exactly the deviceId level.
C1_RouterHandsSegments ==
    lastMsg = None \/
    LET m == lastMsg[1]
    IN m.onLoop =>
        /\ IsSensorSubject(m.topic) =>
              m.spawned = "sensor" /\ m.device_id = m.topic[3] /\ m.sensor_type = m.topic[4]
        /\ IsStatusSubject(m.topic) => m.spawned = "status" /\ m.device_id = m.topic[3]
        /\ IsConfigSubject(m.topic) => m.spawned = "config" /\ m.device_id = m.topic[3]

\* C2: a message whose subject has none of the three shapes starts no
\* coroutine, adds exactly one to messages_failed, and on_mqtt_message
\* does not raise.
C2_UnroutableCounted ==
    lastMsg = None \/
    LET m == lastMsg[1]
    IN ~IsRoutable(m.topic) => m.spawned = "none" /\ m.failed_delta = 1 /\ ~m.raised

\* C3: when a sink write of a validated reading fails, the writes to the
\* other three sinks are attempted all the same and the failure does not
\* reach the except clause of process_sensor_data.
C3_FanoutIsolation ==
    \A i \in SensorTasks :
        (tasks[i].pc = "done" /\ tasks[i].valid = "pass" /\ tasks[i].failed # {})
            => (tasks[i].attempted = Sinks /\ ~tasks[i].raised)

\* C4: every write a sink accepted for a reading, and every write attempted
\* for one, is of a reading that passed validation.
C4_OnlyValidatedReachSinks ==
    /\ \A s \in Sinks : \A e \in sinkLog[s] :
           e.kind = "sensor" => tasks[e.id].valid = "pass" /\ ReadingValid(tasks[e.id])
    /\ \A i \in SensorTasks :
           tasks[i].attempted # {} => tasks[i].valid = "pass" /\ ReadingValid(tasks[i])

\* C4 witness: a validated reading reached a sink while a rejected one of
\* another task reached none.
C4_Witness ==
    /\ \E s \in Sinks : \E e \in sinkLog[s] : e.kind = "sensor"
    /\ \E i \in SensorTasks : tasks[i].valid = "fail" /\ tasks[i].pc = "done"

\* The state part of C5.
HashIffValidated ==
    /\ \A i \in SensorTasks :
           /\ tasks[i].data_hash # NoHash <=> tasks[i].valid = "pass"
           /\ tasks[i].attempted # {} => tasks[i].data_hash # NoHash
    /\ \A s \in Sinks : \A e \in sinkLog[s] :
           e.kind = "sensor" => e.data_hash # NoHash /\ e.data_hash = tasks[e.id].data_hash

\* The step part of C5.
HashKept ==
    \A i \in DOMAIN tasks : tasks[i].data_hash # NoHash => tasks'[i].data_hash = tasks[i].data_hash

\* C5: a reading carries a data hash exactly when it passed validation, the
\* hash is attached before the first sink write, every sink receives that
\* hash, and a hash once attached never changes.
C5_HashIffValidated == [] HashIffValidated /\ [][HashKept]_vars

\* C5 witness: a hashed reading in the middle of its sink writes, beside a
\* rejected reading without a hash.
C5_Witness ==
    /\ \E i \in SensorTasks : tasks[i].valid = "pass" /\ tasks[i].pc = "redis" /\ sinkLog["kafka"] # {}
    /\ \E i \in SensorTasks : tasks[i].valid = "fail" /\ tasks[i].data_hash = NoHash

\* C6: the step in which a reading fails validation adds exactly one to
\* messages_failed and nothing to messages_processed.
C6_RejectedCounted ==
    [][\A i \in DOMAIN tasks :
          (tasks[i].valid = "pending" /\ tasks'[i].valid = "fail")
              => (messages_failed' = messages_failed + 1 /\ messages_processed' = messages_processed)]_vars

\* The clients whose connection step succeeded.
Connected == {connectLog[k] : k \in DOMAIN connectLog}

\* C7: the RUNNING state (running flag, broker loop, stats task) and the
\* subscription are reached only when every connection step succeeded, the
\* flag is set only while all five clients are open, and once a step has
\* raised none of them is ever reached.
C7_NoPartialStartup ==
    /\ (running \/ loopStarted \/ statsPc # "none" \/ subscribed) => Connected = Clients
    /\ running => \A c \in Clients : conn[c] = "open"
    /\ exc = "error" => ~running /\ ~loopStarted /\ statsPc = "none" /\ ~subscribed

\* C7 witness: the cache connection failed after the time-series store was
\* connected, and the service has exited.
C7_Witness ==
    /\ exc = "error"
    /\ Connected = {"influxdb"}
    /\ conn["redis"] = "closed"
    /\ pc = "exited"

\* The lifecycle state of the service, read off run().
LifecycleState ==
    IF pc = "start" THEN "INIT"
    ELSE IF pc \in Clients THEN "CONNECTING"
    ELSE IF pc \in {"loop_start", "serving"} THEN "RUNNING"
    ELSE IF startup # "ok" THEN "FAILED"
    ELSE IF pc \in {"shutdown", "closing"} THEN "DRAINING"
    ELSE "STOPPED"

LifecycleTransitions ==
    {<<"INIT", "CONNECTING">>, <<"CONNECTING", "RUNNING">>, <<"CONNECTING", "FAILED">>,
     <<"RUNNING", "DRAINING">>, <<"DRAINING", "STOPPED">>}

\* C8: the lifecycle state changes only along INIT->CONNECTING,
\* CONNECTING->RUNNING, CONNECTING->FAILED, RUNNING->DRAINING and
\* DRAINING->STOPPED; a startup that is aborted counts as FAILED.
C8_LifecycleTransitions ==
    [][LifecycleState' = LifecycleState \/ <<LifecycleState, LifecycleState'>> \in LifecycleTransitions]_vars

\* C8 witness: the service went through RUNNING and DRAINING and is STOPPED.
C8_Witness == LifecycleState = "STOPPED" /\ closeLog # <<>>

\* C9: when a reporting tick ends, messages_processed and messages_failed
\* are 0 and devices_active is empty.
C9_WindowsReset ==
    [][(statsPc = "publish" /\ statsPc' \in {"sleep", "done"})
          => (messages_processed' = 0 /\ messages_failed' = 0 /\ devices_active' = {})]_vars

\* C10: no sink connection is closed while a per-message coroutine has
\* neither returned nor been given a grace period (the code has no timer,
\* so a coroutine that has not returned was given none).
C10_GracefulDrain ==
    (\E s \in Sinks : conn[s] = "closed") => \A i \in DOMAIN tasks : tasks[i].pc = "done"

\* A sequence in reverse.
Reverse(s) == [k \in 1..Len(s) |-> s[Len(s) + 1 - k]]

\* C11: when the service has exited after a complete startup, the clients
\* were closed in the exact reverse of the order they were connected in.
C11_CloseReversesConnect ==
    (pc = "exited" /\ startup = "ok") => closeLog = Reverse(connectLog)

\* C12: the step in which a per-message coroutine of any of the three
\* kinds catches an exception adds exactly one to messages_failed.
C12_ProcessingErrorsCounted ==
    [][\A i \in DOMAIN tasks :
          (~tasks[i].raised /\ tasks'[i].raised) => messages_failed' = messages_failed + 1]_vars

\* C13: the step in which a write to one of the four sinks fails raises the
\* failure count and does not end process_sensor_data by an exception.
C13_SinkFailuresCounted ==
    [][\A i \in DOMAIN tasks : \A s \in Sinks :
          (s \notin tasks[i].failed /\ s \in tasks'[i].failed)
              => (messages_failed' > messages_failed /\ ~tasks'[i].raised)]_vars

\* The per-message coroutines that have neither returned nor been cancelled.
InFlight == {i \in DOMAIN tasks : tasks[i].pc \notin {"done", "cancelled"}}

\* C14: the coroutines in flight stay below the number of messages of a
\* burst, as any concurrency limit smaller than the burst would keep them.
C14_BoundedInFlight == Cardinality(InFlight) < MaxInputs

\* C15: the increment of messages_failed in on_mqtt_message is atomic: the
\* step that writes the counter back leaves it one above its value before
\* that step, whatever the event loop did since the counter was read.
C15_AtomicCounters ==
    [][(loaded # None /\ loaded' = None) => messages_failed' = messages_failed + 1]_vars

\* C19: once cache_latest_reading has stored the fields of a reading and is
\* left, the key carries the time to live of 3600 seconds.
C19_CacheWriteExpires ==
    \A i \in SensorTasks :
        ((\E e \in sinkLog["redis"] : e.id = i) /\ tasks[i].pc # "redis_expire")
            => tasks[i].ttl = Some(3600)

\* C20: every message the stream bus accepted, of a reading or of a device
\* status, is keyed by the device_id the coroutine was started with.
C20_KafkaKeyIsSubjectDevice ==
    \A e \in sinkLog["kafka"] : e.key = tasks[e.id].device_id

\* The reading process_sensor_data builds for a task.
ReadingOf(t) == SensorData(t.device_id, t.sensor_type, t.payload, t.now)

\* Two readings with the same device_id, sensor_type, timestamp, value, unit.
SameCanonicalFields(r1, r2) ==
    /\ r1.device_id = r2.device_id
    /\ r1.sensor_type = r2.sensor_type
    /\ r1.timestamp = r2.timestamp
    /\ r1.value = r2.value
    /\ r1.unit = r2.unit

\* C16: the data hash a reading received is the one every reading with the
\* same device_id, sensor_type, timestamp, value and unit receives, whatever
\* its quality and metadata and whether the fields came from the payload or
\* from the defaults.
C16_HashOfCanonicalFields ==
    \A i \in SensorTasks :
        tasks[i].data_hash # NoHash =>
            \A p \in ProbePayloads(tasks[i].sensor_type) : \A now \in {1, 2} :
                LET t2 == [NewTask("sensor", tasks[i].device_id, tasks[i].sensor_type, p, "call")
                              EXCEPT !.now = now]
                IN (SameCanonicalFields(ReadingOf(tasks[i]), ReadingOf(t2))
                       /\ SensorValidated(t2).valid = "pass")
                      => SensorValidated(t2).data_hash = tasks[i].data_hash

\* C16 witness: a hashed reading whose quality and metadata are not the
\* defaults, so that readings with its canonical fields and other quality
\* and metadata exist.
C16_Witness ==
    \E i \in SensorTasks :
        /\ tasks[i].data_hash # NoHash
        /\ tasks[i].payload.quality = Some(0)
        /\ tasks[i].payload.metadata = "m"
        /\ tasks[i].payload.timestamp = Some(1)

\* C17: a validated reading of a sensor type of the table passed if its
\* value is within the bounds of the type, bounds included, and its quality
\* within 0..1, and failed with out_of_range if its value is outside; for
\* co2, 300, 450 and 5000 pass and -5 fails.
C17_RangeValidation ==
    \A i \in SensorTasks :
        (tasks[i].valid # "pending" /\ tasks[i].sensor_type \in DOMAIN IOT_SENSOR_CONFIGS) =>
            LET t == tasks[i]
                r == ReadingOf(t)
                b == IOT_SENSOR_CONFIGS[t.sensor_type]
                inRange == b.min_value <= r.value /\ r.value <= b.max_value
                goodQuality == 0 <= r.quality /\ r.quality <= 1
            IN /\ (inRange /\ goodQuality) => t.valid = "pass"
               /\ ~inRange => (t.valid = "fail" /\ "out_of_range" \in t.reasons)
               /\ (t.sensor_type = "co2" /\ r.value \in {300, 450, 5000} /\ goodQuality)
                      => t.valid = "pass"
               /\ (t.sensor_type = "co2" /\ r.value = -5) => t.valid = "fail"

\* C17 witness: a co2 reading at the upper bound 5000 that passed.
C17_Witness ==
    \E i \in SensorTasks :
        /\ tasks[i].sensor_type = "co2"
        /\ tasks[i].payload.value = Some(5000)
        /\ tasks[i].valid = "pass"
        /\ tasks[i].pc = "done"

\* C18: a reading of a sensor type without an entry in the table never
\* passes validation, fails with unknown_sensor_type, and no sink write is
\* attempted or accepted for it.
C18_UnknownTypeRejected ==
    \A i \in SensorTasks :
        tasks[i].sensor_type \notin DOMAIN IOT_SENSOR_CONFIGS =>
            /\ tasks[i].valid # "pass"
            /\ tasks[i].pc = "done" => (tasks[i].valid = "fail"
                                         /\ "unknown_sensor_type" \in tasks[i].reasons)
            /\ tasks[i].attempted = {}
            /\ \A s \in Sinks : \A e \in sinkLog[s] : e.id # i

\* C18 witness: a reading with a sensor type the router passes was rejected.
C18_Witness ==
    \E i \in SensorTasks :
        /\ tasks[i].sensor_type \in RouterTags
        /\ tasks[i].valid = "fail"
        /\ tasks[i].pc = "done"

\* The connect order the specification names.
ConnectOrder == <<"influxdb", "redis", "mongodb", "kafka", "mqtt">>

\* The clients before c in ConnectOrder.
Before(c) == {ConnectOrder[k] : k \in {j \in DOMAIN ConnectOrder : \E m \in DOMAIN ConnectOrder :
                                              ConnectOrder[m] = c /\ j < m}}

\* C21: the clients are connected in the order influxdb, redis, mongodb,
\* kafka, mqtt; a step is attempted only when every earlier step succeeded;
\* the broker is attempted, and the subscription made, only with all four
\* sinks connected.
C21_ConnectInOrder ==
    /\ connectLog = SubSeq(ConnectOrder, 1, Len(connectLog))
    /\ \A c \in Clients : (pc = c \/ conn[c] # "none") => Before(c) \subseteq Connected
    /\ (pc = "mqtt" \/ conn["mqtt"] # "none" \/ subscribed) => Sinks \subseteq Connected

\* C21 witness: the stream bus step failed after three steps succeeded, and
\* the broker was never attempted.
C21_Witness ==
    /\ exc = "error"
    /\ connectLog = <<"influxdb", "redis", "mongodb">>
    /\ conn["mqtt"] = "none"
    /\ pc = "exited"

\* C22: once shutdown has begun closing connections, the statistics
\* reporter starts no further publish of its snapshot.
C22_NoStatsAfterClose ==
    [][closeLog # <<>> => ~(statsPc = "sleep" /\ statsPc' = "publish")]_vars

\* The records a store holds for device d.
RecordsOf(store, d) == {r \in store : r.device_id = d}

\* The state part of C23: one record per device, and each of its six
\* fields is the one of the update that wrote it.
StatusIsLastUpdate ==
    /\ \A r1, r2 \in device_status : r1.device_id = r2.device_id => r1 = r2
    /\ \A r \in device_status :
           \E i \in DOMAIN tasks :
               /\ tasks[i].kind = "status" /\ tasks[i].now = r.by
               /\ tasks[i].device_id = r.device_id
               /\ r.status = (IF tasks[i].payload.status = NoField THEN "unknown"
                              ELSE tasks[i].payload.status)
               /\ r.battery_level = (IF tasks[i].payload.battery_level = None THEN 0
                                     ELSE tasks[i].payload.battery_level[1])
               /\ r.signal_strength = 0 /\ r.firmware_version = "" /\ r.ip_address = ""
               /\ r.last_seen >= tasks[i].now

\* The step part of C23: the record of a device changes only in the hset of
\* an update for that device, which stamps it with the time of the write.
StatusOthersKept ==
    \A d \in Devices :
        RecordsOf(device_status', d) # RecordsOf(device_status, d) =>
            \E i \in DOMAIN tasks :
                /\ tasks[i].kind = "status" /\ tasks[i].device_id = d
                /\ tasks[i].pc = "status_hset" /\ tasks'[i].pc = "status_kafka"
                /\ \A r \in RecordsOf(device_status', d) :
                       r.by = tasks[i].now /\ r.last_seen = delivered

\* C23: a status update replaces the whole record of its device, last_seen
\* is the time of the write, the records of other devices stay, and no
\* field of an earlier update survives a later one.
C23_StatusReplaced == [] StatusIsLastUpdate /\ [][StatusOthersKept]_vars

\* C23 witness: two updates for one device were stored, the first with a
\* battery level and the second without, and the record is the second's.
C23_Witness ==
    /\ tasks[1].kind = "status" /\ tasks[2].kind = "status"
    /\ tasks[1].device_id = tasks[2].device_id
    /\ tasks[1].payload.battery_level = Some(90) /\ tasks[2].payload.battery_level = None
    /\ tasks[1].pc = "done" /\ ~tasks[1].raised
    /\ \E r \in device_status : r.by = 2 /\ r.battery_level = 0

C25_NoRetry ==
    \A i \in SensorTasks : \A st \in WriteSteps : tasks[i].tries[st] <= 1

\* C25 witness: the writes to the cache and to the document store failed,
\* each was sent once, and process_sensor_data has returned.
C25_Witness ==
    \E i \in SensorTasks :
        /\ tasks[i].pc = "done"
        /\ {"redis", "mongodb"} \subseteq tasks[i].failed
        /\ tasks[i].tries["redis"] = 1 /\ tasks[i].tries["mongodb"] = 1

\* C26: every message on_mqtt_message routes starts exactly one coroutine
\* on the event loop.
C26_OneTaskPerMessage ==
    lastMsg = None \/
    LET m == lastMsg[1]
    IN Route(m.topic).kind # "none" => m.spawned = Route(m.topic).kind

\* C27: what a reset of the reporter removes from a counter is what the
\* snapshot it published reports, so that no counted outcome is dropped.
C27_NoOutcomeLost ==
    [][(messages_processed' < messages_processed \/ messages_failed' < messages_failed)
          => /\ published' # None
             /\ published'[1].messages_processed = messages_processed
             /\ published'[1].messages_failed = messages_failed]_vars

\* A sink holds a write of sensor task i.
Holds(s, i) == \E e \in sinkLog[s] : e.id = i /\ e.kind = "sensor"

\* C28: the sinks are written in the order influxdb, kafka, redis, mongodb: a
\* reading kafka holds is held by influxdb, one that redis or mongodb holds
\* is held by kafka, and a write is attempted only after the earlier ones.
C28_SinkOrder ==
    \A i \in SensorTasks :
        /\ Holds("kafka", i) => Holds("influxdb", i)
        /\ (Holds("redis", i) \/ Holds("mongodb", i)) => Holds("kafka", i)
        /\ "kafka" \in tasks[i].attempted => "influxdb" \in tasks[i].attempted
        /\ "redis" \in tasks[i].attempted => "kafka" \in tasks[i].attempted
        /\ "mongodb" \in tasks[i].attempted => "redis" \in tasks[i].attempted

\* C28 witness: the document store holds a reading whose cache write failed.
C28_Witness ==
    \E i \in SensorTasks : Holds("mongodb", i) /\ "redis" \in tasks[i].failed

\* process_sensor_data raised before validation: json.loads or data['value'].
ParseRaised(t) == ~t.payload.json \/ t.payload.value = None

\* The state part of C29, for the calls that have returned.
CountedAsClaimed ==
    \A i \in SensorTasks :
        tasks[i].pc = "done" =>
            /\ tasks[i].counted = "processed" <=>
                   (tasks[i].valid = "pass" /\ tasks[i].failed \cap {"influxdb", "kafka"} = {})
            /\ tasks[i].counted = "failed" <=>
                   (ParseRaised(tasks[i]) \/ tasks[i].failed \cap {"influxdb", "kafka"} # {})

\* The step part of C29: the counters follow the outcome.
CountersFollow ==
    \A i \in DOMAIN tasks :
        /\ (tasks[i].counted = "none" /\ tasks'[i].counted = "processed")
               => /\ messages_processed' = messages_processed + 1
                  /\ messages_failed' = messages_failed
                  /\ devices_active' = devices_active \cup {tasks[i].device_id}
        /\ (tasks[i].counted = "none" /\ tasks'[i].counted = "failed")
               => /\ messages_failed' = messages_failed + 1
                  /\ messages_processed' = messages_processed
                  /\ devices_active' = devices_active

\* C29: a reading is counted as processed, and its device added to
\* devices_active, exactly when it passed validation and neither the influxdb
\* write nor the kafka publish raised, whatever the redis and mongodb writes
\* did; it is counted as failed exactly when parsing or one of these two
\* writes raised.
C29_CountedOutcome == [] CountedAsClaimed /\ [][CountersFollow]_vars

\* C29 witness: a reading counted as processed although its cache write and
\* its document store insert failed.
C29_Witness ==
    \E i \in SensorTasks :
        /\ tasks[i].counted = "processed"
        /\ tasks[i].failed = {"redis", "mongodb"}
        /\ messages_processed = 1
        /\ tasks[i].device_id \in devices_active

\* The step part of C30: a step adds one to exactly one of the two counters,
\* or leaves both, or is the reset of the reporter.
CountersStep ==
    \/ messages_processed' = messages_processed /\ messages_failed' = messages_failed
    \/ messages_processed' = messages_processed + 1 /\ messages_failed' = messages_failed
    \/ messages_processed' = messages_processed /\ messages_failed' = messages_failed + 1
    \/ messages_processed' = 0 /\ messages_failed' = 0 /\ devices_active' = {}

\* C30: a message changes at most one of the two counters, by exactly one,
\* and devices_active never has more elements than messages_processed counts.
C30_CountersConsistent ==
    [] (Cardinality(devices_active) <= messages_processed) /\ [][CountersStep]_vars

\* C31: the AI engine serves requests only with all eight startup steps
\* succeeded, in the order of StartupSteps; when a step has failed no
\* request is ever served, the exception leaves lifespan(), and the Redis
\* client and the database service are closed when lifespan() is left.
C31_LifespanStartup ==
    /\ started = SubSeq(StartupSteps, 1, Len(started))
    /\ (lpc = "yield" \/ requests # <<>>) => started = StartupSteps
    /\ (started # StartupSteps /\ lpc \in {"close_redis", "close_database", "done"})
           => (lexc = "error" /\ requests = <<>>)
    /\ lpc = "done" => /\ globals["redis_client"] \in {"none", "closed"}
                       /\ globals["database_service"] \in {"none", "closed"}

\* C31 witness: loading the emission models failed after three steps had
\* succeeded; lifespan() is left with the exception, both clients closed.
C31_Witness ==
    /\ lpc = "done"
    /\ lexc = "error"
    /\ started = <<"redis_client", "database_service", "blockchain_service">>
    /\ requests = <<>>
    /\ globals["redis_client"] = "closed"
    /\ globals["database_service"] = "closed"

====
